---- MODULE Spec2Model ----
(***************************************************************************)
(* Model of rebrief/st_model_wrappers.py: the SummarizationModel adapter   *)
(* and abstractive_summary, the driver that feeds a document to a          *)
(* length-bounded summarization pipeline and re-chunks it on IndexError.   *)
(*                                                                         *)
(* Texts are sequences of one-character strings.  The pipeline is an       *)
(* unknown deterministic function of its input: the variable model holds   *)
(* the part of that function that calls have revealed so far; the answer   *)
(* to a text that was never submitted is any of Outputs.                   *)
(***************************************************************************)
EXTENDS Integers, Sequences, FiniteSets, TLC

VARIABLES
    text,          \* argument of abstractive_summary
    model,         \* the pipeline handle: text -> answer, as revealed by calls
    pc,            \* "whole", "paragraphs", "sentences", "returned", "raised"
    paragraphs,    \* local: the non-empty pieces of text.split("\n")
    idx,           \* position of the for loop in paragraphs
    summary,       \* local: list of partial summaries
    sentences,     \* local: sentence units still to be submitted
    segment_size,  \* local
    result,        \* value returned to the caller
    error,         \* exception that reached the caller
    calls,         \* history: the model calls of this invocation, in order
    invocation,    \* 1 or 2: abstractive_summary is called twice on (text, model)
    first,         \* history: what the first invocation did
    left,          \* a SummarizationModel instance
    right,         \* another SummarizationModel instance
    compared,      \* the value of left == right once it has been evaluated
    registry,      \* the adapters the module has defined so far, in order
    frames,        \* concurrent invocations: the locals of each one
    lists,         \* concurrent invocations: the summary list of each one
    interleaved    \* history: a step was taken while the other invocation was under way

driver ==
    <<text, model, pc, paragraphs, idx, summary, sentences, segment_size,
      result, error, calls, invocation, first>>

adapters ==
    <<left, right, compared, registry>>

concurrent ==
    <<frames, lists, interleaved>>

vars ==
    <<driver, adapters, concurrent>>

-----------------------------------------------------------------------------
(* Bounds *)

MaxLen ==
    5

MaxCalls ==
    8

MaxConcLen ==
    2

-----------------------------------------------------------------------------
(* Characters and texts *)

NL ==
    "\n"

Period ==
    "."

Space ==
    " "

Alphabet ==
    {"a", Period, NL}

Documents ==
    UNION {[1..k -> Alphabet] : k \in 0..MaxLen}

SummaryTexts ==
    {<<>>, <<"x">>, <<"y">>}

None ==
    <<"None">>

NoFrame ==
    [calls |-> <<>>, pc |-> "none", result |-> None, error |-> "none",
     model |-> [t \in {} |-> None]]

\* what one call of the pipeline followed by output[0]['summary_text'] can do
Outputs ==
    {[exc |-> "none", summary_text |-> s] : s \in SummaryTexts}
        \cup {[exc |-> e, summary_text |-> <<>>] : e \in {"IndexError", "RuntimeError"}}

Answers(t) ==
    IF t \in DOMAIN model THEN {model[t]} ELSE Outputs

-----------------------------------------------------------------------------
(* str.split, str.join and list slices, as Python computes them *)

IndexOf(s, c) ==
    IF \E i \in 1..Len(s) : s[i] = c
    THEN CHOOSE i \in 1..Len(s) : s[i] = c /\ \A j \in 1..(i - 1) : s[j] /= c
    ELSE 0

RECURSIVE Split(_, _)
Split(s, c) ==
    LET i == IndexOf(s, c)
    IN  IF i = 0
        THEN <<s>>
        ELSE <<SubSeq(s, 1, i - 1)>> \o Split(SubSeq(s, i + 1, Len(s)), c)

RECURSIVE Join(_, _)
Join(list, sep) ==
    IF list = <<>> THEN <<>>
    ELSE IF Len(list) = 1 THEN list[1]
    ELSE list[1] \o sep \o Join(Tail(list), sep)

Min(a, b) ==
    IF a < b THEN a ELSE b

Take(list, k) ==
    SubSeq(list, 1, Min(k, Len(list)))

\* variant: the slice starts one element too far
DropOneMore(list, k) ==
    SubSeq(list, Min(k, Len(list)) + 2, Len(list))

Drop(list, k) ==
    SubSeq(list, Min(k, Len(list)) + 1, Len(list))

NonEmpty(p) ==
    p /= <<>>

-----------------------------------------------------------------------------
(* The pieces of abstractive_summary *)

\* variant: a newline is added to the decoded text
summary_text_newline(out) ==
    out.summary_text \o <<NL>>

summary_text(out) ==
    out.summary_text

\* variant: no except clause
ExceptNothing(exc) ==
    FALSE

\* variant: a bare except
ExceptAny(exc) ==
    TRUE

ExceptDocument(exc) ==
    exc = "IndexError"

ExceptParagraph(exc) ==
    exc = "IndexError"

\* variant: the empty pieces are kept
ParagraphsUnfiltered(t) ==
    Split(t, NL)

\* variant: the document is split at the period
ParagraphsAtPeriod(t) ==
    SelectSeq(Split(t, Period), NonEmpty)

Paragraphs(t) ==
    SelectSeq(Split(t, NL), NonEmpty)

\* variant: the list of an earlier invocation is reused
StaleList ==
    summary

EmptyList ==
    <<>>

Sentences(paragraph) ==
    Split(paragraph, Period)

chunks ==
    2

SegmentSize(units) ==
    Len(units) \div chunks

Segment(units, size) ==
    Join(Take(units, size), <<Period, Space>>)

\* variant: the partial summaries are joined by a space
JoinSummarySpace(list) ==
    Join(list, <<Space>>)

JoinSummary(list) ==
    Join(list, <<NL>>)

Call(level, par, units, input, out) ==
    [level |-> level, par |-> par, units |-> units, text |-> input, out |-> out]

-----------------------------------------------------------------------------
(* SummarizationModel: an attrs class with five attr.ib fields.  attr.s()  *)
(* generates __eq__, which compares the tuples of all the fields.          *)

Names ==
    {"abstractive", "modern_extractive"}

Loaders ==
    {"load_abstractive_model", "load_neural_extractive_model"}

Summarizers ==
    {"abstractive_summary", "summarize"}

DisplayNames ==
    {"Neural Abstractive", "Neural Extractive"}

Descriptions ==
    {"### HuggingFace Summarization Pipeline", "### Fine-tuning SentenceBERT"}

SummarizationModel ==
    [name : Names, load : Loaders, summarize : Summarizers,
     display_name : DisplayNames, description : Descriptions]

abstractive ==
    [name |-> "abstractive", load |-> "load_abstractive_model",
     summarize |-> "abstractive_summary", display_name |-> "Neural Abstractive",
     description |-> "### HuggingFace Summarization Pipeline"]

modern_extractive ==
    [name |-> "modern_extractive", load |-> "load_neural_extractive_model",
     summarize |-> "summarize", display_name |-> "Neural Extractive",
     description |-> "### Fine-tuning SentenceBERT"]

classic_extractive ==
    [name |-> "classic_extractive", load |-> "build_classic_nlp_pipeline",
     summarize |-> "classic_summary", display_name |-> "Classic Extractive",
     description |-> "### TextRank"]

\* variant: the name of the adapter it was copied from is left in place
upgraded_with_copied_name ==
    [name |-> "classic_extractive", load |-> "build_trf_nlp_pipeline",
     summarize |-> "sentence_summary_upgrade", display_name |-> "Hybrid Extractive",
     description |-> " ### TextRank + SentenceBERT"]

upgraded_classic_extractive ==
    [name |-> "hybrid_extractive", load |-> "build_trf_nlp_pipeline",
     summarize |-> "sentence_summary_upgrade", display_name |-> "Hybrid Extractive",
     description |-> " ### TextRank + SentenceBERT"]

\* the adapters in the order the module defines them
ModuleAdapters ==
    <<abstractive, modern_extractive, classic_extractive, upgraded_classic_extractive>>

AdapterEq(a, b) ==
    <<a.name, a.load, a.summarize, a.display_name, a.description>>
        = <<b.name, b.load, b.summarize, b.display_name, b.description>>

\* __hash__ as the class body defines it
AdapterHash(a) ==
    a.name

-----------------------------------------------------------------------------

Init ==
    /\ text \in Documents
    /\ model = [t \in {} |-> None]
    /\ pc = "whole"
    /\ paragraphs = <<>>
    /\ idx = 0
    /\ summary = <<>>
    /\ sentences = <<>>
    /\ segment_size = 0
    /\ result = None
    /\ error = "none"
    /\ calls = <<>>
    /\ invocation = 1
    /\ first = NoFrame
    /\ left = abstractive
    /\ right = abstractive
    /\ compared = "unset"
    /\ registry = ModuleAdapters
    /\ frames = <<>>
    /\ lists = <<>>
    /\ interleaved = FALSE

\* lines 112-119 and, when the call succeeds, line 136
WholeDocument ==
    /\ pc = "whole"
    /\ \E out \in Answers(text) :
        /\ model' = (text :> out) @@ model
        /\ calls' = Append(calls, Call("document", 0, <<>>, text, out))
        /\ IF out.exc = "none"
           THEN /\ pc' = "returned"
                /\ result' = summary_text(out)
                /\ UNCHANGED <<paragraphs, idx, summary, error>>
           ELSE IF ExceptDocument(out.exc)
           THEN /\ pc' = "paragraphs"
                /\ paragraphs' = Paragraphs(text)
                /\ idx' = 1
                /\ summary' = EmptyList
                /\ UNCHANGED <<result, error>>
           ELSE /\ pc' = "raised"
                /\ error' = out.exc
                /\ UNCHANGED <<paragraphs, idx, summary, result>>
    /\ UNCHANGED <<text, sentences, segment_size, invocation, first, adapters, concurrent>>

\* lines 120-129: one iteration of the for loop, up to the while loop
Paragraph ==
    /\ pc = "paragraphs"
    /\ idx <= Len(paragraphs)
    /\ LET paragraph == paragraphs[idx]
       IN  \E out \in Answers(paragraph) :
            /\ model' = (paragraph :> out) @@ model
            /\ calls' = Append(calls, Call("paragraph", idx, <<>>, paragraph, out))
            /\ IF out.exc = "none"
               THEN /\ summary' = Append(summary, summary_text(out))
                    /\ idx' = idx + 1
                    /\ UNCHANGED <<pc, sentences, segment_size, error>>
               ELSE IF ExceptParagraph(out.exc)
               THEN /\ sentences' = Sentences(paragraph)
                    /\ segment_size' = SegmentSize(Sentences(paragraph))
                    /\ pc' = "sentences"
                    /\ UNCHANGED <<summary, idx, error>>
               ELSE /\ pc' = "raised"
                    /\ error' = out.exc
                    /\ UNCHANGED <<summary, idx, sentences, segment_size>>
    /\ UNCHANGED <<text, paragraphs, result, invocation, first, adapters, concurrent>>

\* lines 130-134: one iteration of the while loop
SentenceSegment ==
    /\ pc = "sentences"
    /\ sentences /= <<>>
    /\ segment_size > 0 \/ Len(calls) < MaxCalls
    /\ LET units   == Take(sentences, segment_size)
           segment == Segment(sentences, segment_size)
       IN  \E out \in Answers(segment) :
            /\ model' = (segment :> out) @@ model
            /\ calls' = Append(calls, Call("segment", idx, units, segment, out))
            /\ sentences' = Drop(sentences, segment_size)
            /\ IF out.exc = "none"
               THEN /\ summary' = Append(summary, summary_text(out))
                    /\ UNCHANGED <<pc, error>>
               ELSE /\ pc' = "raised"
                    /\ error' = out.exc
                    /\ UNCHANGED summary
    /\ UNCHANGED <<text, paragraphs, idx, segment_size, result, invocation, first, adapters, concurrent>>

\* line 130, the while loop ends: on to the next paragraph
SentencesDone ==
    /\ pc = "sentences"
    /\ sentences = <<>>
    /\ pc' = "paragraphs"
    /\ idx' = idx + 1
    /\ UNCHANGED <<text, model, paragraphs, summary, sentences, segment_size,
                   result, error, calls, invocation, first, adapters, concurrent>>

\* lines 135-136, the for loop has ended
JoinAndReturn ==
    /\ pc = "paragraphs"
    /\ idx > Len(paragraphs)
    /\ result' = JoinSummary(summary)
    /\ pc' = "returned"
    /\ UNCHANGED <<text, model, paragraphs, idx, summary, sentences, segment_size,
                   error, calls, invocation, first, adapters, concurrent>>

\* the caller calls abstractive_summary(text, model) again; the locals of the
\* new frame hold no defined value until the code assigns them
CallAgain ==
    /\ pc \in {"returned", "raised"}
    /\ invocation = 1
    /\ first' = [calls |-> calls, pc |-> pc, result |-> result, error |-> error,
                 model |-> model]
    /\ invocation' = 2
    /\ pc' = "whole"
    /\ calls' = <<>>
    /\ result' = None
    /\ error' = "none"
    /\ UNCHANGED <<text, model, paragraphs, idx, summary, sentences, segment_size,
                   adapters, concurrent>>

Next ==
    \/ WholeDocument
    \/ Paragraph
    \/ SentenceSegment
    \/ SentencesDone
    \/ JoinAndReturn
    \/ CallAgain

Spec ==
    Init /\ [][Next]_vars

-----------------------------------------------------------------------------
(* Adapters: two instances are constructed, then compared *)

AdapterInit ==
    /\ left \in SummarizationModel
    /\ right \in SummarizationModel
    /\ compared = "unset"
    /\ text = <<>>
    /\ model = [t \in {} |-> None]
    /\ pc = "idle"
    /\ paragraphs = <<>>
    /\ idx = 0
    /\ summary = <<>>
    /\ sentences = <<>>
    /\ segment_size = 0
    /\ result = None
    /\ error = "none"
    /\ calls = <<>>
    /\ invocation = 1
    /\ first = NoFrame
    /\ registry = <<>>
    /\ frames = <<>>
    /\ lists = <<>>
    /\ interleaved = FALSE

\* lines 138, 159, 180, 203: the module defines its next adapter
Define ==
    /\ Len(registry) < Len(ModuleAdapters)
    /\ registry' = Append(registry, ModuleAdapters[Len(registry) + 1])
    /\ UNCHANGED <<driver, left, right, compared, concurrent>>

Compare ==
    /\ compared = "unset"
    /\ compared' = (IF AdapterEq(left, right) THEN "True" ELSE "False")
    /\ UNCHANGED <<driver, left, right, registry, concurrent>>

AdapterNext ==
    \/ Define
    \/ Compare

AdapterSpec ==
    AdapterInit /\ [][AdapterNext]_vars

FairSpec ==
    Init /\ [][Next]_vars /\ WF_vars(Next)

-----------------------------------------------------------------------------
(* Concurrent invocations: two calls of abstractive_summary on different    *)
(* documents and the same handle, their model calls interleaved.  Each      *)
(* invocation has its own frame of locals; model is shared.                 *)

Procs ==
    {1, 2}

ConcDocuments ==
    UNION {[1..k -> Alphabet] : k \in 0..MaxConcLen}

\* a strict total order on documents: the two invocations run the same code,
\* so only one order of each pair of documents is explored
RECURSIVE Rank(_)
Rank(d) ==
    IF d = <<>> THEN 0
    ELSE (IF Head(d) = "a" THEN 1 ELSE IF Head(d) = Period THEN 2 ELSE 3) + 4 * Rank(Tail(d))

NewFrame(d) ==
    [text |-> d, pc |-> "whole", paragraphs |-> <<>>, idx |-> 0, sentences |-> <<>>,
     segment_size |-> 0, result |-> None, error |-> "none", calls |-> <<>>, steps |-> 0]

NoAnswer ==
    [exc |-> "none", summary_text |-> <<>>]

\* the text the next step of frame f submits to the model, None when it makes no call
FrameInput(f) ==
    IF f.pc = "whole" THEN f.text
    ELSE IF f.pc = "paragraphs" /\ f.idx <= Len(f.paragraphs) THEN f.paragraphs[f.idx]
    ELSE IF f.pc = "sentences" /\ f.sentences /= <<>> THEN Segment(f.sentences, f.segment_size)
    ELSE None

FrameRunning(f) ==
    /\ f.pc \notin {"returned", "raised"}
    /\ (f.pc = "sentences" /\ f.sentences /= <<>> /\ f.segment_size = 0) => Len(f.calls) < MaxCalls

\* one step of abstractive_summary on the locals f and the summary list l,
\* out being the answer of the model when the step calls it
FrameStep(f, l, out) ==
    LET g == [f EXCEPT !.steps = @ + 1]
    IN  IF f.pc = "whole"
        THEN \* lines 112-119, 136
             LET c == [g EXCEPT !.calls = Append(@, Call("document", 0, <<>>, f.text, out))]
             IN  IF out.exc = "none"
                 THEN [frame |-> [c EXCEPT !.pc = "returned", !.result = summary_text(out)],
                       list |-> l]
                 ELSE IF ExceptDocument(out.exc)
                 THEN [frame |-> [c EXCEPT !.pc = "paragraphs",
                                           !.paragraphs = Paragraphs(f.text), !.idx = 1],
                       list |-> <<>>]
                 ELSE [frame |-> [c EXCEPT !.pc = "raised", !.error = out.exc], list |-> l]
        ELSE IF f.pc = "paragraphs" /\ f.idx <= Len(f.paragraphs)
        THEN \* lines 120-129
             LET paragraph == f.paragraphs[f.idx]
                 c == [g EXCEPT !.calls = Append(@, Call("paragraph", f.idx, <<>>, paragraph, out))]
             IN  IF out.exc = "none"
                 THEN [frame |-> [c EXCEPT !.idx = @ + 1], list |-> Append(l, summary_text(out))]
                 ELSE IF ExceptParagraph(out.exc)
                 THEN [frame |-> [c EXCEPT !.pc = "sentences",
                                           !.sentences = Sentences(paragraph),
                                           !.segment_size = SegmentSize(Sentences(paragraph))],
                       list |-> l]
                 ELSE [frame |-> [c EXCEPT !.pc = "raised", !.error = out.exc], list |-> l]
        ELSE IF f.pc = "paragraphs"
        THEN \* lines 135-136
             [frame |-> [g EXCEPT !.pc = "returned", !.result = JoinSummary(l)], list |-> l]
        ELSE IF f.sentences /= <<>>
        THEN \* lines 130-134
             LET c == [g EXCEPT !.calls = Append(@, Call("segment", f.idx,
                                                        Take(f.sentences, f.segment_size),
                                                        Segment(f.sentences, f.segment_size), out)),
                                !.sentences = Drop(f.sentences, f.segment_size)]
             IN  IF out.exc = "none"
                 THEN [frame |-> c, list |-> Append(l, summary_text(out))]
                 ELSE [frame |-> [c EXCEPT !.pc = "raised", !.error = out.exc], list |-> l]
        ELSE \* line 130, the while loop ends
             [frame |-> [g EXCEPT !.pc = "paragraphs", !.idx = @ + 1], list |-> l]

\* variant: summary is one list of the module, shared by the invocations
SummaryOfModule(p) ==
    1

\* line 119: summary is a local, each invocation has its own list
SummaryOf(p) ==
    p

ConcInit ==
    /\ \E d1, d2 \in ConcDocuments :
        /\ Rank(d1) < Rank(d2)
        /\ frames = <<NewFrame(d1), NewFrame(d2)>>
    /\ lists = <<<<>>, <<>>>>
    /\ interleaved = FALSE
    /\ model = [t \in {} |-> None]
    /\ text = <<>>
    /\ pc = "idle"
    /\ paragraphs = <<>>
    /\ idx = 0
    /\ summary = <<>>
    /\ sentences = <<>>
    /\ segment_size = 0
    /\ result = None
    /\ error = "none"
    /\ calls = <<>>
    /\ invocation = 1
    /\ first = NoFrame
    /\ left = abstractive
    /\ right = abstractive
    /\ compared = "unset"
    /\ registry = ModuleAdapters

\* invocation p takes its next step
ConcurrentStep(p) ==
    /\ FrameRunning(frames[p])
    /\ LET f     == frames[p]
           input == FrameInput(f)
           o     == SummaryOf(p)
       IN  \E out \in (IF input = None THEN {NoAnswer} ELSE Answers(input)) :
            LET n == FrameStep(f, lists[o], out)
            IN  /\ frames' = [frames EXCEPT ![p] = n.frame]
                /\ lists' = [lists EXCEPT ![o] = n.list]
                /\ model' = (IF input = None THEN model ELSE (input :> out) @@ model)
    /\ interleaved' =
        (interleaved \/ \E q \in Procs \ {p} :
                            frames[q].steps > 0 /\ frames[q].pc \notin {"returned", "raised"})
    /\ UNCHANGED <<text, pc, paragraphs, idx, summary, sentences, segment_size,
                   result, error, calls, invocation, first, adapters>>

ConcNext ==
    \E p \in Procs : ConcurrentStep(p)

ConcSpec ==
    ConcInit /\ [][ConcNext]_vars

-----------------------------------------------------------------------------
(* Vocabulary of the properties *)

Returned ==
    pc = "returned"

Raised ==
    pc = "raised"

Accepted(c) ==
    c.out.exc = "none"

LengthExceeded(c) ==
    c.out.exc = "IndexError"

LastCall ==
    calls[Len(calls)]

\* the maximal non-empty stretches of t that hold no newline, as index pairs
Lines(t) ==
    {r \in (1..Len(t)) \X (1..Len(t)) :
        /\ r[1] <= r[2]
        /\ \A i \in r[1]..r[2] : t[i] /= NL
        /\ r[1] = 1 \/ t[r[1] - 1] = NL
        /\ r[2] = Len(t) \/ t[r[2] + 1] = NL}

LineAt(t, k) ==
    CHOOSE r \in Lines(t) : Cardinality({q \in Lines(t) : q[1] < r[1]}) = k - 1

NonEmptyLines(t) ==
    [k \in 1..Cardinality(Lines(t)) |-> SubSeq(t, LineAt(t, k)[1], LineAt(t, k)[2])]

SegmentCalls(p) ==
    SelectSeq(calls, LAMBDA c : c.level = "segment" /\ c.par = p)

OnlyNewlines(t) ==
    \A i \in 1..Len(t) : t[i] = NL

\* a newline of t with a character other than a newline on each side
HasSingleNewline(t) ==
    \E i \in 2..(Len(t) - 1) : t[i] = NL /\ t[i - 1] /= NL /\ t[i + 1] /= NL

RECURSIVE Flatten(_)
Flatten(ls) ==
    IF ls = <<>> THEN <<>> ELSE Head(ls) \o Flatten(Tail(ls))

UnitsOf(cs) ==
    [j \in 1..Len(cs) |-> cs[j].units]

SummariesOf(cs) ==
    [j \in 1..Len(cs) |-> cs[j].out.summary_text]

Recovering ==
    Len(calls) >= 1 /\ LengthExceeded(calls[1])

\* the while loop of paragraph p has run to its end
LoopComplete(p) ==
    /\ ~Raised
    /\ \/ Returned
       \/ idx > p
       \/ (pc = "sentences" /\ idx = p /\ sentences = <<>>)

-----------------------------------------------------------------------------
(* C1: when the whole-document call does not raise IndexError it is the only *)
(* model call, its input is the unmodified document, and the summary_text   *)
(* it produced is what abstractive_summary returns.                         *)
C1_SingleCallWhenDocumentFits ==
    /\ pc /= "whole" =>
        /\ Len(calls) >= 1
        /\ calls[1].level = "document"
        /\ calls[1].text = text
    /\ (Len(calls) >= 1 /\ ~LengthExceeded(calls[1])) =>
        /\ Len(calls) = 1
        /\ Accepted(calls[1]) => (Returned /\ result = calls[1].out.summary_text)

C1_Witness ==
    /\ Returned
    /\ Len(calls) = 1
    /\ Accepted(calls[1])
    /\ \E i \in 1..Len(text) : text[i] = NL
    /\ \E i \in 1..Len(text) : text[i] = Period
    /\ result /= <<>>

(* C2: when the whole-document call raises IndexError and the model accepts *)
(* every non-empty paragraph (newline-delimited piece), the calls after the *)
(* first are exactly one per non-empty paragraph, in order, and the result  *)
(* is their summaries joined by one newline.                                *)
C2_ParagraphSummariesJoined ==
    LET P == NonEmptyLines(text)
    IN  (/\ Returned
         /\ LengthExceeded(calls[1])
         /\ \A k \in 1..Len(P) : P[k] \in DOMAIN model /\ model[P[k]].exc = "none")
        =>
        /\ Len(calls) = 1 + Len(P)
        /\ \A k \in 1..Len(P) :
            /\ calls[k + 1].level = "paragraph"
            /\ calls[k + 1].text = P[k]
        /\ result = Join([k \in 1..Len(P) |-> model[P[k]].summary_text], <<NL>>)

C2_Witness ==
    /\ Returned
    /\ LengthExceeded(calls[1])
    /\ Len(calls) = 3
    /\ Accepted(calls[2]) /\ Accepted(calls[3])
    /\ calls[2].out.summary_text /= calls[3].out.summary_text
    /\ \E i \in 1..(Len(text) - 1) : text[i] = NL /\ text[i + 1] = NL

(* C3: a paragraph whose paragraph-level call raises IndexError is submitted *)
(* as exactly 2 segments: the first floor(n/2) of its n period-delimited    *)
(* units, then all the remaining units, each joined with ". ".              *)
C3_ExactlyTwoSegments ==
    \A i \in 1..Len(calls) :
        (calls[i].level = "paragraph" /\ LengthExceeded(calls[i])) =>
            LET p == calls[i].par
                U == Split(calls[i].text, Period)
                h == Len(U) \div 2
                S == SegmentCalls(p)
            IN  /\ Len(S) <= 2
                /\ \A j \in 1..Len(S) : S[j].text = Join(S[j].units, <<Period, Space>>)
                /\ Len(S) >= 1 => S[1].units = SubSeq(U, 1, h)
                /\ Len(S) >= 2 => S[2].units = SubSeq(U, h + 1, Len(U))
                /\ (~Raised /\ (Returned \/ idx > p)) => Len(S) = 2

(* C4: whatever the document and whichever pieces exceed the budget, the    *)
(* call eventually returns a summary (a failure other than length-exceeded  *)
(* aside).                                                                  *)
C4_EventuallyReturns ==
    <>(Returned \/ error = "RuntimeError")

(* C5: an IndexError of the whole-document call or of a paragraph-level call *)
(* is recovered and never reaches the caller; an IndexError reaches the     *)
(* caller only from a sentence-segment call.                                *)
C5_LengthExceededRecovered ==
    /\ \A i \in 1..Len(calls) :
        (LengthExceeded(calls[i]) /\ calls[i].level \in {"document", "paragraph"}) =>
            /\ ~(Raised /\ i = Len(calls))
            /\ i = Len(calls) =>
                pc = (IF calls[i].level = "document" THEN "paragraphs" ELSE "sentences")
                \/ (Returned /\ calls[i].level = "document")
    /\ (Raised /\ error = "IndexError") =>
        (LastCall.level = "segment" /\ LengthExceeded(LastCall))

C5_Witness ==
    /\ Raised
    /\ error = "IndexError"
    /\ Len(calls) >= 4
    /\ LengthExceeded(calls[1])
    /\ \E i \in 2..Len(calls) : calls[i].level = "paragraph" /\ LengthExceeded(calls[i])
    /\ LastCall.level = "segment"

(* C6: two adapters with the same name compare equal and have the same hash *)
(* whatever their other fields; adapters with different names never compare *)
(* equal.                                                                   *)
C6_EqualByName ==
    compared /= "unset" =>
        /\ left.name = right.name =>
            (compared = "True" /\ AdapterHash(left) = AdapterHash(right))
        /\ left.name /= right.name => compared = "False"

\* every summary the model has produced so far is non-empty
NonEmptySummaries ==
    \A t \in DOMAIN model : model[t].exc = "none" => model[t].summary_text /= <<>>

(* C7: with a model whose summaries are never empty, the summary returned   *)
(* for a non-empty document is non-empty: the empty string is returned only *)
(* for the empty document.                                                  *)
C7_EmptyOnlyForEmptyDocument ==
    (NonEmptySummaries /\ Returned /\ result = <<>>) => text = <<>>

(* C7, amended: with a model whose summaries are never empty, the empty     *)
(* string is returned only for a document that holds nothing but newline    *)
(* characters (the empty document included).                                *)
C7_EmptyOnlyForBlankDocument ==
    (NonEmptySummaries /\ Returned /\ result = <<>>) => OnlyNewlines(text)

C7_Witness ==
    /\ NonEmptySummaries
    /\ Returned
    /\ ~OnlyNewlines(text)
    /\ LengthExceeded(calls[1])
    /\ \E i \in 1..Len(calls) : calls[i].level = "segment"
    /\ \E i \in 1..Len(calls) : calls[i].level = "paragraph" /\ Accepted(calls[i])
    /\ result /= <<>>

(* C8: for the empty document no error is raised: when the model accepts    *)
(* the empty text its summary is returned, and when the model raises        *)
(* IndexError on it the empty string is returned with no further call.      *)
C8_EmptyDocument ==
    (text = <<>> /\ Len(calls) >= 1) =>
        /\ Len(calls) = 1
        /\ Accepted(calls[1]) => (Returned /\ result = calls[1].out.summary_text)
        /\ LengthExceeded(calls[1]) =>
            /\ ~Raised
            /\ pc = "paragraphs" => (idx > Len(paragraphs) /\ summary = <<>>)
            /\ Returned => result = <<>>

C8_Witness ==
    /\ text = <<>>
    /\ Returned
    /\ Len(calls) = 1
    /\ LengthExceeded(calls[1])
    /\ result = <<>>

(* C9: an exception other than IndexError raised by a model call, at any    *)
(* level, ends the invocation at once: it reaches the caller unchanged and  *)
(* it is the last model call.                                               *)
C9_OtherFailuresPropagate ==
    /\ \A i \in 1..Len(calls) :
        calls[i].out.exc = "RuntimeError" =>
            (i = Len(calls) /\ Raised /\ error = "RuntimeError")
    /\ (Raised /\ error = "RuntimeError") => LastCall.out.exc = "RuntimeError"

C9_Witness ==
    /\ Raised
    /\ error = "RuntimeError"
    /\ LastCall.level = "segment"
    /\ \E i \in 1..Len(calls) : calls[i].level = "paragraph" /\ Accepted(calls[i])

(* C10: a second invocation with the same document and handle makes the     *)
(* same model calls in the same order, with the same answers, and ends the  *)
(* same way with the same result; it submits nothing the first one did not  *)
(* and the handle is as the first invocation left it.                       *)
C10_SecondInvocationRepeatsFirst ==
    invocation = 2 =>
        /\ Len(calls) <= Len(first.calls)
        /\ \A i \in 1..Len(calls) : calls[i] = first.calls[i]
        /\ model = first.model
        /\ (Returned \/ Raised) =>
            /\ calls = first.calls
            /\ pc = first.pc
            /\ result = first.result
            /\ error = first.error

C10_Witness ==
    /\ invocation = 2
    /\ Returned
    /\ Len(calls) >= 4
    /\ \E i \in 1..Len(calls) : calls[i].level = "segment"
    /\ \E i \in 1..Len(calls) : calls[i].level = "paragraph" /\ Accepted(calls[i])
    /\ result /= <<>>

(* C12: the module defines exactly four adapters, named abstractive,        *)
(* modern_extractive, classic_extractive and hybrid_extractive, and no two  *)
(* adapters it has defined share a name.                                    *)
C12_FourAdaptersDistinctNames ==
    /\ Len(registry) <= 4
    /\ \A i, j \in 1..Len(registry) : i /= j => registry[i].name /= registry[j].name
    /\ ~ENABLED Define =>
        /\ Len(registry) = 4
        /\ {registry[i].name : i \in 1..Len(registry)} =
               {"abstractive", "modern_extractive", "classic_extractive", "hybrid_extractive"}

C12_Witness ==
    /\ Len(registry) = 4
    /\ ~ENABLED Define
    /\ compared /= "unset"

(* C13: every invocation ends after finitely many model calls; in           *)
(* particular the sentence-segment loop exhausts its list: an iteration     *)
(* that goes back to the head of the while loop has removed at least one    *)
(* unit from sentences.                                                     *)
C13_SegmentLoopConsumesUnits ==
    [][(pc = "sentences" /\ pc' = "sentences") => Len(sentences') < Len(sentences)]_vars

(* C14: in the recovery path two pieces of text separated by a single       *)
(* newline stay in one paragraph and are submitted in one call, and no      *)
(* empty fragment is submitted as a paragraph.                              *)
C14_SplitAtBlankLinesOnly ==
    /\ \A k \in 1..Len(calls) : calls[k].level = "paragraph" => calls[k].text /= <<>>
    /\ (Returned /\ Recovering /\ HasSingleNewline(text)) =>
        \E k \in 1..Len(calls) :
            /\ calls[k].level = "paragraph"
            /\ HasSingleNewline(calls[k].text)

(* C14, amended: in the recovery path the document is split at every        *)
(* newline character: the k-th paragraph submitted is the k-th non-empty    *)
(* newline-free stretch of the document, so two pieces separated by a       *)
(* single newline go to the model in separate calls, and empty fragments    *)
(* are discarded without a model call.                                      *)
C14_SplitAtEveryNewline ==
    LET P == NonEmptyLines(text)
    IN  /\ \A k \in 1..Len(calls) :
            calls[k].level = "paragraph" =>
                /\ calls[k].par \in 1..Len(P)
                /\ calls[k].text = P[calls[k].par]
                /\ \A j \in 1..Len(calls) :
                    (calls[j].level = "paragraph" /\ calls[j].par = calls[k].par) => j = k
        /\ (Returned /\ Recovering) =>
            \A n \in 1..Len(P) :
                \E k \in 1..Len(calls) : calls[k].level = "paragraph" /\ calls[k].par = n

C14_Witness ==
    /\ Returned
    /\ Recovering
    /\ HasSingleNewline(text)
    /\ Cardinality({k \in 1..Len(calls) : calls[k].level = "paragraph"}) >= 2
    /\ \E i \in 1..(Len(text) - 1) : text[i] = NL /\ text[i + 1] = NL

(* C15: in the recovery path the calls go through the paragraphs in         *)
(* document order, the segment calls of an oversized paragraph follow its   *)
(* paragraph-level call, and the result is the summaries of the accepted    *)
(* calls, in the order of the calls, joined by newlines.                    *)
C15_PartialSummariesInDocumentOrder ==
    Recovering =>
        /\ \A i, j \in 2..Len(calls) : i < j =>
            /\ calls[i].par <= calls[j].par
            /\ calls[i].par = calls[j].par =>
                (calls[i].level = "paragraph" \/ calls[j].level = "segment")
        /\ summary = SummariesOf(SelectSeq(Tail(calls), Accepted))
        /\ Returned => result = Join(SummariesOf(SelectSeq(Tail(calls), Accepted)), <<NL>>)

C15_Witness ==
    /\ Returned
    /\ Recovering
    /\ \E i, j, k \in 2..Len(calls) :
        /\ i < j /\ j < k
        /\ calls[i].level = "paragraph" /\ Accepted(calls[i])
        /\ calls[j].level = "segment" /\ Accepted(calls[j])
        /\ calls[k].level = "paragraph" /\ Accepted(calls[k])
        /\ calls[i].out.summary_text /= calls[j].out.summary_text

(* C16: a paragraph-level call is made only after the whole-document call   *)
(* raised IndexError, a segment call only after the paragraph-level call of *)
(* the same paragraph raised IndexError, and a paragraph the model accepted *)
(* is never split into sentences.                                           *)
C16_FinerOnlyAfterFailure ==
    \A i \in 1..Len(calls) :
        /\ (i = 1) <=> (calls[i].level = "document")
        /\ calls[i].level = "paragraph" => LengthExceeded(calls[1])
        /\ calls[i].level = "segment" =>
            \E j \in 2..(i - 1) :
                /\ calls[j].level = "paragraph"
                /\ calls[j].par = calls[i].par
                /\ LengthExceeded(calls[j])
        /\ (calls[i].level = "paragraph" /\ ~LengthExceeded(calls[i])) =>
            SegmentCalls(calls[i].par) = <<>>

C16_Witness ==
    /\ Returned
    /\ \E i, j \in 2..Len(calls) :
        /\ calls[i].level = "paragraph" /\ Accepted(calls[i])
        /\ calls[j].level = "paragraph" /\ LengthExceeded(calls[j])
        /\ Len(SegmentCalls(calls[j].par)) >= 2

(* C17: for an oversized paragraph the segments submitted so far, followed  *)
(* by the units still to submit, are the units of the paragraph in order;   *)
(* once its loop has completed the submitted segments hold every unit       *)
(* exactly once, in order.                                                  *)
C17_SegmentsCoverUnits ==
    \A i \in 1..Len(calls) :
        (calls[i].level = "paragraph" /\ LengthExceeded(calls[i])) =>
            LET p == calls[i].par
                U == Split(calls[i].text, Period)
                D == Flatten(UnitsOf(SegmentCalls(p)))
            IN  /\ (pc = "sentences" /\ idx = p) => D \o sentences = U
                /\ LoopComplete(p) => D = U

C17_Witness ==
    /\ Returned
    /\ \E i \in 2..Len(calls) :
        /\ calls[i].level = "paragraph" /\ LengthExceeded(calls[i])
        /\ Len(Split(calls[i].text, Period)) >= 3
        /\ \E u \in 1..3 : Split(calls[i].text, Period)[u] /= <<>>
        /\ LoopComplete(calls[i].par)

(* C18: once the whole-document attempt has failed, every model call, on a  *)
(* paragraph or on a sentence segment, is given non-empty text.             *)
C18_NoEmptyInputInRecovery ==
    \A k \in 2..Len(calls) : calls[k].text /= <<>>

\* an invocation run alone on document d for n steps, the model answering as
\* it has answered so far
RECURSIVE AloneFrom(_, _, _)
AloneFrom(f, l, n) ==
    IF n = 0 \/ ~FrameRunning(f) THEN [frame |-> f, list |-> l]
    ELSE LET input == FrameInput(f)
         IN  IF input = None
             THEN LET s == FrameStep(f, l, NoAnswer) IN AloneFrom(s.frame, s.list, n - 1)
             ELSE IF input \notin DOMAIN model THEN [frame |-> f, list |-> l]
             ELSE LET s == FrameStep(f, l, model[input]) IN AloneFrom(s.frame, s.list, n - 1)

Alone(d, n) ==
    AloneFrom(NewFrame(d), <<>>, n)

(* C11: under every interleaving of two invocations on different documents  *)
(* and the same deterministic model, each invocation is, after each of its  *)
(* steps, exactly where it would be had it run alone: same model calls,     *)
(* same locals, same summary list, same result or exception.                *)
C11_ConcurrentAsAlone ==
    \A p \in DOMAIN frames :
        Alone(frames[p].text, frames[p].steps) = [frame |-> frames[p], list |-> lists[p]]

C11_Witness ==
    /\ interleaved
    /\ \A p \in DOMAIN frames :
        /\ frames[p].pc = "returned"
        /\ Len(frames[p].calls) >= 3
        /\ LengthExceeded(frames[p].calls[1])
        /\ frames[p].result /= <<>>
    /\ DOMAIN frames = Procs
    /\ lists[1] /= lists[2]

====
